---- MODULE Spec2Model ----
(***************************************************************************)
(* Model of thakii-lambda-router: the per-backend circuit breaker kept by  *)
(* ServiceManager and the failover loop that forwards one request.         *)
(*                                                                         *)
(* The repository holds two implementations, src/lambda_function.py and    *)
(* src/lambda_function_fixed.py.  The variable impl says which of the two  *)
(* is deployed; definitions ending in _fixed model the second file.        *)
(***************************************************************************)
EXTENDS Integers, Sequences, FiniteSets, TLC

\* ------------------------------------------------------------------ bounds
MaxTime      == 3   \* the clock runs over 1..MaxTime
MaxThreshold == 2   \* failure_threshold ranges over 1..MaxThreshold
MaxRecovery  == 2   \* recovery_timeout ranges over 1..MaxRecovery
MaxFailures  == 3   \* record_failure is not called beyond this count

\* ------------------------------------------------------------------ state
VARIABLES
    impl,             \* which file is deployed
    config,           \* the loaded configuration (never changes)
    now,              \* time.time()
    circuit_breakers, \* ServiceManager.circuit_breakers
    last_op,          \* the operation that produced this state
    available,        \* names returned by the last get_available_services
    half_open,        \* backends re-admitted by a selection, no outcome since
    since_success,    \* record_failure calls since the last record_success
    request,          \* inputs of the last routed request
    response,         \* what the last routed request returned
    sends,            \* network calls made for the last routed request
    recorded          \* breaker outcomes recorded for the last routed request

vars == <<impl, config, now, circuit_breakers, last_op, available, half_open,
          since_success, request, response, sends, recorded>>

Impls == {"lambda_function", "lambda_function_fixed"}
Names == {"A", "B", "C"}

\* A service entry of config['ai_services'].
Service(n, p, e) == [name |-> n, priority |-> p, enabled |-> e]

\* A service entry that has no 'priority' key.
ServiceNoPriority(n, e) == [name |-> n, enabled |-> e]

\* ------------------------------------------------------- circuit breaker
\* dict.get(name) of a missing key: the entry {'failures': 0, 'last_failure': 0}
\* exists only once present is TRUE; status is used by lambda_function_fixed only.
NoEntry == [present |-> FALSE, status |-> "", failures |-> 0, last_failure |-> 0]

failure_threshold == config.failure_threshold
recovery_timeout == config.recovery_timeout

\* Faulty variant: the recovery window is compared with <= instead of <.
is_circuit_breaker_open_le(cb, n, t) ==
    /\ cb[n].failures >= failure_threshold
    /\ t - cb[n].last_failure <= recovery_timeout

\* lambda_function.py: _is_circuit_breaker_open, the boolean it returns.
is_circuit_breaker_open(cb, n, t) ==
    /\ cb[n].failures >= failure_threshold
    /\ t - cb[n].last_failure < recovery_timeout

\* lambda_function.py: _is_circuit_breaker_open, the reset it performs once the
\* recovery timeout has passed.
circuit_breaker_reset(cb, n, t) ==
    IF cb[n].failures >= failure_threshold
       /\ ~(t - cb[n].last_failure < recovery_timeout)
    THEN [cb EXCEPT ![n] = [present |-> TRUE, status |-> "",
                            failures |-> 0, last_failure |-> 0]]
    ELSE cb

\* lambda_function.py: record_failure.
record_failure(cb, n, t) ==
    [cb EXCEPT ![n] = [present |-> TRUE, status |-> "",
                       failures |-> cb[n].failures + 1, last_failure |-> t]]

\* Faulty variant: a success takes one failure off the count.
record_success_decrements(cb, n) ==
    IF cb[n].present
    THEN [cb EXCEPT ![n].failures = @ - 1]
    ELSE cb

\* lambda_function.py: record_success.
record_success(cb, n) ==
    IF cb[n].present
    THEN [cb EXCEPT ![n].failures = 0]
    ELSE cb

\* lambda_function_fixed.py: the skip test of get_available_services.
is_skipped_fixed(cb, n, t) ==
    /\ cb[n].present
    /\ cb[n].status = "open"
    /\ t - cb[n].last_failure < recovery_timeout

\* lambda_function_fixed.py: the half-open reset of get_available_services.
half_open_reset_fixed(cb, n, t) ==
    IF cb[n].present /\ cb[n].status = "open"
       /\ ~(t - cb[n].last_failure < recovery_timeout)
    THEN [cb EXCEPT ![n] = [present |-> TRUE, status |-> "half-open",
                            failures |-> 0, last_failure |-> 0]]
    ELSE cb

\* lambda_function_fixed.py: record_failure.
record_failure_fixed(cb, n, t) ==
    LET st == IF cb[n].present THEN cb[n].status ELSE "closed"
        f  == cb[n].failures + 1
    IN [cb EXCEPT ![n] = [present |-> TRUE,
                          status |-> IF f >= failure_threshold THEN "open" ELSE st,
                          failures |-> f, last_failure |-> t]]

\* Faulty variant: a success in half-open resets the count but leaves the status.
record_success_fixed_keeps_status(cb, n) ==
    IF cb[n].present /\ cb[n].status = "half-open"
    THEN [cb EXCEPT ![n].failures = 0, ![n].last_failure = 0]
    ELSE cb

\* lambda_function_fixed.py: record_success.
record_success_fixed(cb, n) ==
    IF cb[n].present /\ cb[n].status = "half-open"
    THEN [cb EXCEPT ![n] = [present |-> TRUE, status |-> "closed",
                            failures |-> 0, last_failure |-> 0]]
    ELSE cb

\* The deployed file's version of each operation.
Skipped(cb, n, t) ==
    IF impl = "lambda_function" THEN is_circuit_breaker_open(cb, n, t)
    ELSE is_skipped_fixed(cb, n, t)

Readmit(cb, n, t) ==
    IF impl = "lambda_function" THEN circuit_breaker_reset(cb, n, t)
    ELSE half_open_reset_fixed(cb, n, t)

RecordFailureOn(cb, n, t) ==
    IF impl = "lambda_function" THEN record_failure(cb, n, t)
    ELSE record_failure_fixed(cb, n, t)

RecordSuccessOn(cb, n) ==
    IF impl = "lambda_function" THEN record_success(cb, n)
    ELSE record_success_fixed(cb, n)

\* -------------------------------------------------------------- selection
\* sorted(available, key=priority): Python's sort is stable, so a service goes
\* after every service already placed whose priority is not larger.
\* The sort key: x.get('priority', 999).
priority_key(s) == IF "priority" \in DOMAIN s THEN s.priority ELSE 999

\* Faulty variant: a service goes before the services of equal priority.
RECURSIVE insert_by_priority_unstable(_, _)
insert_by_priority_unstable(s, sorted) ==
    IF sorted = <<>> THEN <<s>>
    ELSE IF priority_key(sorted[Len(sorted)]) < priority_key(s)
         THEN Append(sorted, s)
         ELSE Append(insert_by_priority_unstable(s, SubSeq(sorted, 1, Len(sorted) - 1)),
                     sorted[Len(sorted)])

RECURSIVE insert_by_priority(_, _)
insert_by_priority(s, sorted) ==
    IF sorted = <<>> THEN <<s>>
    ELSE IF priority_key(sorted[Len(sorted)]) <= priority_key(s)
         THEN Append(sorted, s)
         ELSE Append(insert_by_priority(s, SubSeq(sorted, 1, Len(sorted) - 1)),
                     sorted[Len(sorted)])

RECURSIVE sorted_by_priority(_)
sorted_by_priority(services) ==
    IF services = <<>> THEN <<>>
    ELSE insert_by_priority(services[Len(services)],
                            sorted_by_priority(SubSeq(services, 1, Len(services) - 1)))

\* The loop of get_available_services: disabled services and services whose
\* breaker is open are left out.
RECURSIVE filter_available(_, _, _)
filter_available(services, cb, t) ==
    IF services = <<>> THEN <<>>
    ELSE LET s    == services[1]
             rest == filter_available(Tail(services), cb, t)
         IN IF ~s.enabled \/ Skipped(cb, s.name, t) THEN rest ELSE <<s>> \o rest

\* The breaker entries get_available_services leaves behind: every enabled
\* service whose recovery timeout has passed is reset.
breakers_after_selection(cb, t) ==
    [n \in Names |->
        IF \E i \in 1..Len(config.ai_services) :
              config.ai_services[i].name = n /\ config.ai_services[i].enabled
        THEN Readmit(cb, n, t)[n]
        ELSE cb[n]]

\* get_available_services: the list it returns.
get_available_services(cb, t) ==
    sorted_by_priority(filter_available(config.ai_services, cb, t))

NamesOf(services) == [i \in 1..Len(services) |-> services[i].name]
Range(seq) == {seq[i] : i \in 1..Len(seq)}
Configured == Range(NamesOf(config.ai_services))

\* ------------------------------------------------------ what a state means
\* The breaker entry says open (whether or not the recovery timeout has passed).
StoredOpen(cb, n) ==
    IF impl = "lambda_function" THEN cb[n].failures >= failure_threshold
    ELSE cb[n].present /\ cb[n].status = "open"

\* closed, open, or half-open: re-admitted by a selection after the recovery
\* timeout, with no outcome recorded since.
Phase(n) ==
    IF n \in half_open THEN "half-open"
    ELSE IF StoredOpen(circuit_breakers, n) THEN "open"
    ELSE "closed"

\* The backend is excluded by a selection made now.
BreakerOpen(n) == Skipped(circuit_breakers, n, now)

NoBreakers == [n \in Names |-> NoEntry]
\* ---------------------------------------------------------------- routing
\* What a backend does with one send: an HTTP status, or the exception that
\* requests raises.
Status(c) == [kind |-> "status", code |-> c]
Raises(e) == [kind |-> e, code |-> 0]
Outcomes == { Status(200), Status(302), Status(500), Raises("timeout") }

SupportedMethods == {"GET", "POST", "PUT", "DELETE"}
Methods == {"GET", "PATCH"}
HealthCheckedPaths == {"/upload", "/download"}
Paths == {"/", "/upload"}

\* The last_error field of an error body: absent, null, or a description of one
\* backend's failure ("Service X returned status N" / "Service X error: E").
LastError(k, n, c, e) == [kind |-> k, svc |-> n, code |-> c, err |-> e]
AbsentError == LastError("absent", "", 0, "")
NullError == LastError("null", "", 0, "")

Response(sc, err, msg, le, by) ==
    [statusCode |-> sc, error |-> err, message |-> msg, last_error |-> le,
     served_by |-> by]

NotReachable == "Service not reachable at this moment"

\* The 503 returned when get_available_services returns nothing.
NoneAvailable == Response(503, NotReachable, "unavailable", AbsentError, "")

\* Faulty variant: the status of the last failed backend is passed on.
AllFailed_last_status(le) ==
    Response(IF le.kind = "status" THEN le.code ELSE 503, NotReachable,
             "all failed", le, "")

\* The 503 returned when the attempts are used up.
AllFailed(le) == Response(503, NotReachable, "all failed", le, "")

NoRequest ==
    [method |-> "", path |-> "",
     outcome |-> [n \in Names |-> Status(200)],
     health |-> [n \in Names |-> TRUE]]
NoResponse == Response(0, "", "", AbsentError, "")

Send(n, k) == [svc |-> n, kind |-> k]
Recorded(n, r) == [svc |-> n, result |-> r]

\* Faulty variant: the answer of GET /health is not looked at.
health_check_service_ignored(n, req) == TRUE

\* lambda_function.py: health_check_service.  health[n] is whether GET /health
\* answers 200; an exception counts as unhealthy.
health_check_service(n, req) == req.health[n]

\* lambda_function.py: forward_request, the status it returns.
forward_request(n, req) ==
    IF req.method \notin SupportedMethods THEN 405
    ELSE CASE req.outcome[n].kind = "status" -> req.outcome[n].code
           [] req.outcome[n].kind = "timeout" -> 504
           [] req.outcome[n].kind = "connection_error" -> 503
           [] OTHER -> 500

\* Faulty variant: a forward is sent a second time.
sends_of_attempt_retries(n, req, healthy) ==
    (IF req.path \in HealthCheckedPaths THEN <<Send(n, "health")>> ELSE <<>>)
    \o (IF healthy /\ req.method \in SupportedMethods
        THEN <<Send(n, "forward"), Send(n, "forward")>> ELSE <<>>)

\* lambda_function.py: the network calls one turn of the loop makes.
sends_of_attempt(n, req, healthy) ==
    (IF req.path \in HealthCheckedPaths THEN <<Send(n, "health")>> ELSE <<>>)
    \o (IF healthy /\ req.method \in SupportedMethods
        THEN <<Send(n, "forward")>> ELSE <<>>)

\* lambda_function.py: lambda_handler, the loop over available_services.
RECURSIVE try_each_service(_, _, _, _, _)
try_each_service(cands, cb, t, req, acc) ==
    IF cands = <<>>
    THEN [cb |-> cb, sends |-> acc.sends, recorded |-> acc.recorded,
          response |-> AllFailed(acc.last_error)]
    ELSE LET n == cands[1]
             healthy == req.path \notin HealthCheckedPaths
                        \/ health_check_service(n, req)
             status_code == forward_request(n, req)
             sent == acc.sends \o sends_of_attempt(n, req, healthy)
         IN IF ~healthy
            THEN try_each_service(Tail(cands), record_failure(cb, n, t), t, req,
                     [sends |-> sent,
                      recorded |-> Append(acc.recorded, Recorded(n, "failure")),
                      last_error |-> acc.last_error])
            ELSE IF status_code < 400
            THEN [cb |-> record_success(cb, n), sends |-> sent,
                  recorded |-> Append(acc.recorded, Recorded(n, "success")),
                  response |-> Response(status_code, "", "", AbsentError, n)]
            ELSE try_each_service(Tail(cands), record_failure(cb, n, t), t, req,
                     [sends |-> sent,
                      recorded |-> Append(acc.recorded, Recorded(n, "failure")),
                      last_error |-> LastError("status", n, status_code, "")])

\* lambda_function.py: lambda_handler on a manager whose breakers are cb.
route(cb, t, req) ==
    LET cands == NamesOf(get_available_services(cb, t))
        cb1   == breakers_after_selection(cb, t)
    IN IF cands = <<>>
       THEN [cb |-> cb1, sends |-> <<>>, recorded |-> <<>>,
             response |-> NoneAvailable]
       ELSE try_each_service(cands, cb1, t, req,
                [sends |-> <<>>, recorded |-> <<>>, last_error |-> NullError])

\* Faulty variant: the failed service is not removed from the list, so the
\* fallback goes to it again.
fallback_fixed_retries_first(cands, cb, t, req, first, sent, rec) ==
    LET next_service == cands[1]
        o == req.outcome[next_service]
        sent2 == Append(sent, Send(next_service, "forward"))
        first_status == req.outcome[first].code
    IN IF Len(cands) > 1
       THEN IF o.kind = "status" /\ 200 <= o.code /\ o.code < 300
            THEN [cb |-> record_success_fixed(cb, next_service), sends |-> sent2,
                  recorded |-> Append(rec, Recorded(next_service, "success")),
                  response |-> Response(o.code, "", "", AbsentError, next_service)]
            ELSE [cb |-> record_failure_fixed(cb, next_service, t), sends |-> sent2,
                  recorded |-> Append(rec, Recorded(next_service, "failure")),
                  response |-> AllFailed(LastError("status", first, first_status, ""))]
       ELSE [cb |-> cb, sends |-> sent, recorded |-> rec,
             response |-> AllFailed(LastError("status", first, first_status, ""))]

\* lambda_function_fixed.py: forward_request, the fallback attempt made after
\* the first service answered with a failure status.
fallback_fixed(cands, cb, t, req, first, sent, rec) ==
    LET remaining == SelectSeq(cands, LAMBDA m : m # first)
        next_service == remaining[1]
        o == req.outcome[next_service]
        sent2 == Append(sent, Send(next_service, "forward"))
        first_status == req.outcome[first].code
    IN IF Len(cands) > 1 /\ remaining # <<>>
       THEN IF o.kind # "status"
            THEN [cb |-> record_failure_fixed(cb, next_service, t), sends |-> sent2,
                  recorded |-> Append(rec, Recorded(next_service, "failure")),
                  response |-> AllFailed(LastError("status", first, first_status, ""))]
            ELSE IF 200 <= o.code /\ o.code < 300
            THEN [cb |-> record_success_fixed(cb, next_service), sends |-> sent2,
                  recorded |-> Append(rec, Recorded(next_service, "success")),
                  response |-> Response(o.code, "", "", AbsentError, next_service)]
            ELSE [cb |-> record_failure_fixed(cb, next_service, t), sends |-> sent2,
                  recorded |-> Append(rec, Recorded(next_service, "failure")),
                  response |-> AllFailed(LastError("status", first, o.code, ""))]
       ELSE [cb |-> cb, sends |-> sent, recorded |-> rec,
             response |-> AllFailed(LastError("status", first, first_status, ""))]

\* config.get('load_balancing', {}) with the defaults of its two keys.
load_balancing ==
    IF "load_balancing" \in DOMAIN config THEN config.load_balancing
    ELSE [strategy |-> "priority", round_robin_enabled |-> FALSE]

\* lambda_function_fixed.py: forward_request, the service the strategy picks.
\* Both branches take the head of the list; nothing is kept between requests.
select_service_fixed(cands) ==
    IF load_balancing.strategy = "round_robin" /\ load_balancing.round_robin_enabled
    THEN cands[1]
    ELSE cands[1]

\* Faulty variant: after the success of the first service the fallback is
\* attempted all the same.
first_attempt_fixed_falls_through(cands, cb1, t, req) ==
    LET service_name == select_service_fixed(cands)
        o == req.outcome[service_name]
        sent == <<Send(service_name, "forward")>>
    IN IF req.method \notin SupportedMethods
       THEN [cb |-> cb1, sends |-> <<>>, recorded |-> <<>>,
             response |-> Response(400, "Bad request", "unsupported method",
                                   AbsentError, "")]
       ELSE IF o.kind # "status"
       THEN [cb |-> record_failure_fixed(cb1, service_name, t), sends |-> sent,
             recorded |-> <<Recorded(service_name, "failure")>>,
             response |-> AllFailed(LastError("error", service_name, 0, o.kind))]
       ELSE IF 200 <= o.code /\ o.code < 300
       THEN fallback_fixed(cands, record_success_fixed(cb1, service_name), t,
                           req, service_name, sent,
                           <<Recorded(service_name, "success")>>)
       ELSE fallback_fixed(cands, record_failure_fixed(cb1, service_name, t), t,
                           req, service_name, sent,
                           <<Recorded(service_name, "failure")>>)

\* lambda_function_fixed.py: forward_request, from the choice of the first
\* service on; cands is not empty.
first_attempt_fixed(cands, cb1, t, req) ==
    LET service_name == select_service_fixed(cands)
        o == req.outcome[service_name]
        sent == <<Send(service_name, "forward")>>
    IN IF req.method \notin SupportedMethods
       THEN [cb |-> cb1, sends |-> <<>>, recorded |-> <<>>,
             response |-> Response(400, "Bad request", "unsupported method",
                                   AbsentError, "")]
       ELSE IF o.kind # "status"
       THEN [cb |-> record_failure_fixed(cb1, service_name, t), sends |-> sent,
             recorded |-> <<Recorded(service_name, "failure")>>,
             response |-> AllFailed(LastError("error", service_name, 0, o.kind))]
       ELSE IF 200 <= o.code /\ o.code < 300
       THEN [cb |-> record_success_fixed(cb1, service_name), sends |-> sent,
             recorded |-> <<Recorded(service_name, "success")>>,
             response |-> Response(o.code, "", "", AbsentError, service_name)]
       ELSE fallback_fixed(cands, record_failure_fixed(cb1, service_name, t), t,
                           req, service_name, sent,
                           <<Recorded(service_name, "failure")>>)

\* Faulty variant: the empty list is not checked; available_services[0] raises, and
\* lambda_handler turns the exception into a 500.
forward_request_fixed_unchecked(cb, t, req) ==
    LET cands == NamesOf(get_available_services(cb, t))
        cb1   == breakers_after_selection(cb, t)
    IN IF cands = <<>>
       THEN [cb |-> cb1, sends |-> <<>>, recorded |-> <<>>,
             response |-> Response(500, "list index out of range",
                                   "Internal server error", AbsentError, "")]
       ELSE first_attempt_fixed(cands, cb1, t, req)

\* lambda_function_fixed.py: ServiceManager.forward_request.
forward_request_fixed(cb, t, req) ==
    LET cands == NamesOf(get_available_services(cb, t))
        cb1   == breakers_after_selection(cb, t)
    IN IF cands = <<>>
       THEN [cb |-> cb1, sends |-> <<>>, recorded |-> <<>>,
             response |-> NoneAvailable]
       ELSE first_attempt_fixed(cands, cb1, t, req)

\* The deployed file's handling of one request by a manager whose breakers are cb.
Handle(cb, t, req) ==
    IF impl = "lambda_function" THEN route(cb, t, req)
    ELSE forward_request_fixed(cb, t, req)

Op(op, n, was, pre) == [op |-> op, svc |-> n, was |-> was, pre |-> pre]

\* ------------------------------------------------------------------ config
\* Service lists for the breaker operations called one by one.
BreakerServiceLists ==
    { <<Service("A", 1, TRUE)>>,
      <<Service("A", 1, TRUE), Service("B", 2, FALSE)>>,
      <<Service("A", 1, TRUE), Service("B", 2, TRUE)>> }

\* Service lists for routed requests.
RouteServiceLists ==
    { <<>>,
      <<Service("A", 1, FALSE)>>,
      <<Service("A", 1, TRUE)>>,
      <<Service("A", 1, TRUE), Service("B", 2, TRUE)>>,
      <<Service("A", 1, TRUE), Service("B", 2, TRUE), Service("C", 3, TRUE)>> }

\* Service lists for the selection: a missing priority and a disabled service,
\* priorities against the declaration order, and equal priorities.
SelectServiceLists ==
    { <<ServiceNoPriority("A", TRUE), Service("B", 2, TRUE), Service("C", 1, FALSE)>>,
      <<Service("A", 2, TRUE), Service("B", 1, TRUE)>>,
      <<Service("A", 1, TRUE), Service("B", 1, TRUE)>> }

Configs(lists) ==
    [ai_services : lists,
     failure_threshold : 1..MaxThreshold,
     recovery_timeout : 1..MaxRecovery]

\* Configurations with a load_balancing section.
BalanceConfigs ==
    [ai_services : { <<Service("A", 1, TRUE), Service("B", 2, TRUE)>>,
                     <<Service("A", 1, TRUE), Service("B", 1, TRUE)>> },
     failure_threshold : 1..MaxThreshold,
     recovery_timeout : 1..MaxRecovery,
     load_balancing : [strategy : {"priority", "round_robin"},
                       round_robin_enabled : BOOLEAN]]

InitFrom(configs) ==
    /\ impl \in Impls
    /\ config \in configs
    /\ now = 1
    /\ circuit_breakers = NoBreakers
    /\ last_op = Op("init", "", "", NoBreakers)
    /\ available = <<>>
    /\ half_open = {}
    /\ since_success = [n \in Names |-> 0]
    /\ request = NoRequest
    /\ response = NoResponse
    /\ sends = <<>>
    /\ recorded = <<>>

InitWith(lists) == InitFrom(Configs(lists))

\* The breaker operations called one by one, in any order, as time passes.
Init == InitWith(BreakerServiceLists)

\* ----------------------------------------------------------------- actions
\* The clock advances.
Tick ==
    /\ now < MaxTime
    /\ now' = now + 1
    /\ last_op' = Op("tick", "", "", NoBreakers)
    /\ UNCHANGED <<impl, config, circuit_breakers, available, half_open,
                   since_success, request, response, sends, recorded>>

\* service_manager.record_failure(n)
RecordFailure(n) ==
    /\ n \in Configured
    /\ circuit_breakers[n].failures < MaxFailures
    /\ since_success[n] < MaxFailures
    /\ circuit_breakers' = RecordFailureOn(circuit_breakers, n, now)
    /\ last_op' = Op("record_failure", n, Phase(n), NoBreakers)
    /\ half_open' = half_open \ {n}
    /\ since_success' = [since_success EXCEPT ![n] = @ + 1]
    /\ UNCHANGED <<impl, config, now, available, request, response, sends,
                   recorded>>

\* service_manager.record_success(n)
RecordSuccess(n) ==
    /\ n \in Configured
    /\ circuit_breakers' = RecordSuccessOn(circuit_breakers, n)
    /\ last_op' = Op("record_success", n, Phase(n), NoBreakers)
    /\ half_open' = half_open \ {n}
    /\ since_success' = [since_success EXCEPT ![n] = 0]
    /\ UNCHANGED <<impl, config, now, available, request, response, sends,
                   recorded>>

\* Backends a selection made now re-admits after their recovery timeout.
Readmitted(cb, t) ==
    {n \in Configured : breakers_after_selection(cb, t)[n] # cb[n]}

\* service_manager.get_available_services()
GetAvailableServices ==
    /\ available' = NamesOf(get_available_services(circuit_breakers, now))
    /\ circuit_breakers' = breakers_after_selection(circuit_breakers, now)
    /\ half_open' = half_open \cup Readmitted(circuit_breakers, now)
    /\ last_op' = Op("get_available_services", "", "", circuit_breakers)
    /\ UNCHANGED <<impl, config, now, since_success, request, response, sends,
                   recorded>>

\* The requests that can arrive, for the candidates a selection returns.  A
\* request is the method, the path and what each backend would answer.  An
\* answer that no version of the code reads is held at one value: the answers
\* of backends that are not candidates, of backends after one that is healthy
\* and answers 200, the outcome of an unhealthy backend, and every answer when
\* the method is not supported or no health check is made.
DefaultOutcome == [n \in Names |-> Status(200)]
DefaultHealth == [n \in Names |-> TRUE]
Answer(o, h) == [outcome |-> o, health |-> h]

AnswerChoices(method, path) ==
    LET outcomes == IF method \in SupportedMethods THEN Outcomes ELSE {Status(200)}
        checked  == path \in HealthCheckedPaths /\ impl = "lambda_function"
    IN {Answer(o, TRUE) : o \in outcomes}
       \cup (IF checked THEN {Answer(Status(200), FALSE)} ELSE {})

RECURSIVE Answers(_, _, _)
Answers(cands, method, path) ==
    IF cands = <<>> THEN {Answer(DefaultOutcome, DefaultHealth)}
    ELSE UNION {
        LET rest == IF a.health /\ a.outcome = Status(200)
                       /\ method \in SupportedMethods
                    THEN {Answer(DefaultOutcome, DefaultHealth)}
                    ELSE Answers(Tail(cands), method, path)
        IN {Answer([r.outcome EXCEPT ![cands[1]] = a.outcome],
                   [r.health EXCEPT ![cands[1]] = a.health]) : r \in rest} :
        a \in AnswerChoices(method, path) }

Requests(cands) ==
    UNION { UNION { { [method |-> m, path |-> p,
                       outcome |-> a.outcome, health |-> a.health] :
                        a \in Answers(cands, m, p) } :
                    p \in Paths } :
            m \in Methods }

Failed(rec) == {rec[i].svc : i \in {j \in 1..Len(rec) : rec[j].result = "failure"}}
Succeeded(rec) == {rec[i].svc : i \in {j \in 1..Len(rec) : rec[j].result = "success"}}

\* The failures since the last success, after the outcomes rec were recorded
\* (a request records at most one outcome per backend).
CountOutcomes(count, rec) ==
    [n \in Names |->
        IF n \in Succeeded(rec) THEN 0
        ELSE IF n \in Failed(rec) THEN count[n] + 1
        ELSE count[n]]

\* lambda_handler(event, context): a new ServiceManager, whose circuit_breakers
\* is empty, handles the request.
LambdaHandler ==
    \E req \in Requests(NamesOf(get_available_services(NoBreakers, now))) :
      \E r \in {Handle(NoBreakers, now, req)} :
           /\ circuit_breakers' = r.cb
           /\ available' = NamesOf(get_available_services(NoBreakers, now))
           /\ half_open' = {}
           /\ since_success' = CountOutcomes([n \in Names |-> 0], r.recorded)
           /\ request' = req
           /\ response' = r.response
           /\ sends' = r.sends
           /\ recorded' = r.recorded
           /\ last_op' = Op("lambda_handler", "", "", NoBreakers)
           /\ UNCHANGED <<impl, config, now>>

\* service_manager.forward_request(...) of lambda_function_fixed.py, on the
\* manager as earlier calls left it.
ForwardRequest ==
    /\ impl = "lambda_function_fixed"
    /\ \A n \in Configured : /\ circuit_breakers[n].failures < MaxFailures
                             /\ since_success[n] < MaxFailures
    /\ \E req \in Requests(NamesOf(get_available_services(circuit_breakers, now))) :
      \E r \in {forward_request_fixed(circuit_breakers, now, req)} :
           /\ circuit_breakers' = r.cb
           /\ available' = NamesOf(get_available_services(circuit_breakers, now))
           /\ half_open' = (half_open \cup Readmitted(circuit_breakers, now))
                           \ (Failed(r.recorded) \cup Succeeded(r.recorded))
           /\ since_success' = CountOutcomes(since_success, r.recorded)
           /\ request' = req
           /\ response' = r.response
           /\ sends' = r.sends
           /\ recorded' = r.recorded
           /\ last_op' = Op("forward_request", "", "", circuit_breakers)
           /\ UNCHANGED <<impl, config, now>>

\* ---------------------------------------------- one request, step by step
\* While a request is in hand the response has no status code yet and carries
\* the last_error remembered so far.
Pending(le) == Response(0, "", "", le, "")
InProgress == last_op.op \in {"receive", "attempt"} /\ response.statusCode = 0

\* lambda_handler up to the loop: a new ServiceManager, the request read from
\* the event, the candidate list computed, and the 503 when it is empty.
Receive ==
    /\ ~InProgress
    /\ \E req \in Requests(NamesOf(get_available_services(NoBreakers, now))) :
         /\ request' = req
         /\ available' = NamesOf(get_available_services(NoBreakers, now))
         /\ circuit_breakers' = breakers_after_selection(NoBreakers, now)
         /\ response' = IF get_available_services(NoBreakers, now) = <<>>
                        THEN NoneAvailable ELSE Pending(NullError)
    /\ sends' = <<>>
    /\ recorded' = <<>>
    /\ half_open' = {}
    /\ since_success' = [n \in Names |-> 0]
    /\ last_op' = Op("receive", "", "", NoBreakers)
    /\ UNCHANGED <<impl, config, now>>

\* One turn of the work on the request in hand, on the candidate after those
\* that already have an outcome recorded.  lambda_function.py: one turn of the
\* loop over available_services, and the 503 after the last turn.
\* lambda_function_fixed.py: the first attempt, then the fallback.
turn(k) ==
    IF impl = "lambda_function"
    THEN try_each_service(<<available[k]>>, circuit_breakers, now, request,
             [sends |-> sends, recorded |-> recorded,
              last_error |-> response.last_error])
    ELSE IF k = 1
    THEN first_attempt_fixed(<<available[1]>>, circuit_breakers, now, request)
    ELSE fallback_fixed(available, circuit_breakers, now, request, available[1],
                        sends, recorded)

\* Whether another turn follows the turn on candidate k that ended in r.
more_turns(k, r) ==
    /\ r.response.message = "all failed"
    /\ IF impl = "lambda_function" THEN k < Len(available)
       ELSE /\ k = 1
            /\ r.response.last_error.kind = "status"
            /\ Len(available) > 1
            /\ SelectSeq(available, LAMBDA m : m # available[1]) # <<>>

Attempt ==
    /\ InProgress
    /\ \E k \in {Len(recorded) + 1} :
       \E r \in {turn(k)} :
         /\ circuit_breakers' = r.cb
         /\ sends' = r.sends
         /\ recorded' = r.recorded
         /\ response' = IF more_turns(k, r) THEN Pending(r.response.last_error)
                        ELSE r.response
         /\ since_success' = CountOutcomes([n \in Names |-> 0], r.recorded)
         /\ last_op' = Op("attempt", available[k], "", NoBreakers)
    /\ UNCHANGED <<impl, config, now, available, half_open, request>>

Next ==
    \/ Tick
    \/ \E n \in Names : RecordFailure(n)
    \/ \E n \in Names : RecordSuccess(n)
    \/ GetAvailableServices

Spec == Init /\ [][Next]_vars

\* Selections made as failures are recorded and time passes, over service lists
\* that the sort reorders.
InitSelect == InitWith(SelectServiceLists)

NextSelect ==
    \/ Tick
    \/ \E n \in Names : RecordFailure(n)
    \/ GetAvailableServices

SpecSelect == InitSelect /\ [][NextSelect]_vars

\* Requests routed one after the other within one reading of the clock (the
\* passing of time is explored by Spec), over lists of up to three services.
InitRoute == InitWith(RouteServiceLists)

NextRoute ==
    \/ LambdaHandler
    \/ ForwardRequest

SpecRoute == InitRoute /\ [][NextRoute]_vars

\* One request after the other, each handled turn by turn; a turn that can be
\* taken is taken (every network call is made with a timeout).
NextSteps ==
    \/ Receive
    \/ Attempt

SpecSteps == InitRoute /\ [][NextSteps]_vars /\ WF_vars(Attempt)

\* Requests routed one after the other under each load balancing strategy.
InitBalance == InitFrom(BalanceConfigs)

SpecBalance == InitBalance /\ [][NextRoute]_vars

\* ------------------------------------------------------------------ claims
Enabled(n) ==
    \E i \in 1..Len(config.ai_services) :
        config.ai_services[i].name = n /\ config.ai_services[i].enabled

Routed == last_op.op \in {"lambda_handler", "forward_request"}

\* C1: a record_failure call leaves the backend's breaker open exactly when it
\* brings the count of failures since the last success to failure_threshold, and
\* never while that count is below failure_threshold.
C1_OpensExactlyAtThreshold ==
    \A n \in Configured :
        (last_op.op = "record_failure" /\ last_op.svc = n) =>
            /\ BreakerOpen(n) => since_success[n] >= failure_threshold
            /\ since_success[n] = failure_threshold => BreakerOpen(n)

\* C4: a selection leaves out a backend whose breaker is open while
\* now - last_failure_time < recovery_timeout, and includes it as soon as
\* now - last_failure_time >= recovery_timeout, with no other call in between.
C4_ExcludedUntilRecoveryTimeout ==
    last_op.op = "get_available_services" =>
        \A n \in Configured :
            (Enabled(n) /\ StoredOpen(last_op.pre, n)) =>
                (n \in Range(available)
                 <=> now - last_op.pre[n].last_failure >= recovery_timeout)

\* C4 witness: one selection leaves out an open backend whose recovery timeout
\* has not passed and re-admits another whose timeout has passed.
C4_Witness ==
    /\ last_op.op = "get_available_services"
    /\ \E n, m \in Configured :
        /\ Enabled(n) /\ StoredOpen(last_op.pre, n) /\ n \in Range(available)
        /\ Enabled(m) /\ StoredOpen(last_op.pre, m) /\ m \notin Range(available)

\* C5: one record_failure on a half-open backend opens its breaker again, with
\* last_failure_time = now.
C5_FailureInHalfOpenReopens ==
    (last_op.op = "record_failure" /\ last_op.was = "half-open") =>
        /\ BreakerOpen(last_op.svc)
        /\ circuit_breakers[last_op.svc].last_failure = now

\* C6: one record_success on a half-open backend leaves it closed with
\* consecutive_failures = 0.
C6_SuccessInHalfOpenCloses ==
    (last_op.op = "record_success" /\ last_op.was = "half-open") =>
        /\ ~StoredOpen(circuit_breakers, last_op.svc)
        /\ circuit_breakers[last_op.svc].failures = 0
        /\ impl = "lambda_function_fixed"
              => circuit_breakers[last_op.svc].status = "closed"

\* C6 witness: record_success was called on a half-open backend.
C6_Witness ==
    /\ last_op.op = "record_success"
    /\ last_op.was = "half-open"

\* What the last routed request sent, and what the backends were set to answer.
Sent(n) == \E i \in 1..Len(sends) : sends[i].svc = n
Forwarded(n) == \E i \in 1..Len(sends) : sends[i] = Send(n, "forward")
Healthy(n) == request.path \notin HealthCheckedPaths \/ request.health[n]
FailsWith(n, outcomes) == request.outcome[n] \in outcomes
HttpFailures == {o \in Outcomes : o.kind = "status" /\ o.code >= 400}
TransportFailures == {o \in Outcomes : o.kind # "status"}

\* C2: when the first k candidates answer a failure status (500) and candidate
\* k+1 answers a success status (200), the request returns candidate k+1's
\* response and records one failure for each of the first k candidates and one
\* success for candidate k+1.
C2_FailoverToFirstSuccess ==
    (Routed /\ request.method \in SupportedMethods) =>
        \A k \in 0..(Len(available) - 1) :
            (/\ \A i \in 1..k : Healthy(available[i])
                                /\ request.outcome[available[i]] = Status(500)
             /\ Healthy(available[k + 1])
             /\ request.outcome[available[k + 1]] = Status(200))
            => /\ response.statusCode = 200
               /\ response.served_by = available[k + 1]
               /\ recorded = [i \in 1..(k + 1) |->
                                 IF i <= k THEN Recorded(available[i], "failure")
                                 ELSE Recorded(available[i], "success")]

\* C3: the 503 "all attempts failed" is returned only after every candidate of
\* the list computed at the start was attempted and had a failure recorded, and
\* never when some candidate would answer a success status.
C3_ExhaustiveBefore503 ==
    (Routed /\ response.message = "all failed") =>
        /\ \A i \in 1..Len(available) : available[i] \in Failed(recorded)
        /\ request.method \in SupportedMethods =>
              ~\E i \in 1..Len(available) :
                  Healthy(available[i]) /\ request.outcome[available[i]] = Status(200)

\* C7: a request handled by lambda_handler makes no send to a backend whose
\* breaker the outcomes of earlier requests left open.
C7_BreakerStateShared ==
    [][last_op'.op = "lambda_handler" =>
          \A n \in Configured :
              BreakerOpen(n) => \A i \in 1..Len(sends') : sends'[i].svc # n]_vars

\* C8: with an empty candidate list the request returns 503 with error "Service
\* not reachable at this moment", makes no network call and records no outcome.
C8_NoCandidates ==
    (Routed /\ available = <<>>) =>
        /\ response.statusCode = 503
        /\ response.error = "Service not reachable at this moment"
        /\ sends = <<>>
        /\ recorded = <<>>
        /\ circuit_breakers = last_op.pre

\* C8 witness: a request found every enabled backend's breaker open.
C8_Witness ==
    /\ Routed
    /\ available = <<>>
    /\ \E n \in Configured : Enabled(n)
    /\ \A n \in Configured : Enabled(n) => BreakerOpen(n)

\* C9: with a single available backend whose send times out, the request
\* records exactly one failure for it and returns 503, not 504, with a
\* last_error that describes that backend's timeout.
C9_SingleBackendTimeout ==
    (/\ Routed
     /\ Len(available) = 1
     /\ Forwarded(available[1])
     /\ request.outcome[available[1]] = Raises("timeout"))
    => /\ response.statusCode = 503
       /\ recorded = <<Recorded(available[1], "failure")>>
       /\ response.last_error.svc = available[1]
       /\ \/ response.last_error.kind = "status" /\ response.last_error.code = 504
          \/ response.last_error.kind = "error" /\ response.last_error.err = "timeout"

\* C9 witness: the only available backend was sent the request and timed out.
C9_Witness ==
    /\ Routed
    /\ Len(available) = 1
    /\ Forwarded(available[1])
    /\ request.outcome[available[1]] = Raises("timeout")

\* C10: every candidate that was sent the request and answered with an HTTP
\* status >= 400 or a transport failure has a failure recorded, and the next
\* candidate, when there is one, is attempted.
C10_ErrorsFailOver ==
    Routed =>
        \A i \in 1..Len(available) :
            (/\ Forwarded(available[i])
             /\ FailsWith(available[i], HttpFailures \cup TransportFailures))
            => /\ available[i] \in Failed(recorded)
               /\ i < Len(available) => Sent(available[i + 1])

\* C11: a record_success on a closed backend leaves its consecutive_failures at
\* 0, so failures separated by a success do not add up.
C11_SuccessOnClosedResetsCount ==
    (last_op.op = "record_success" /\ last_op.was = "closed") =>
        circuit_breakers[last_op.svc].failures = 0

\* The place of a backend in config['ai_services'] and its sort key.
IndexOf(n) == CHOOSE i \in 1..Len(config.ai_services) : config.ai_services[i].name = n
PriorityOf(n) == priority_key(config.ai_services[IndexOf(n)])

\* C12: the list get_available_services returns holds no disabled backend,
\* holds every enabled backend whose breaker does not exclude it, once each, and
\* is in ascending priority (999 when missing), equal priorities in declaration
\* order.
C12_CandidateList ==
    last_op.op = "get_available_services" =>
        /\ \A n \in Range(available) : n \in Configured /\ Enabled(n)
        /\ \A n \in Configured :
              (Enabled(n) /\ ~Skipped(last_op.pre, n, now)) => n \in Range(available)
        /\ \A n \in Configured :
              Skipped(last_op.pre, n, now) => n \notin Range(available)
        /\ Cardinality(Range(available)) = Len(available)
        /\ \A i, j \in 1..Len(available) :
              i < j => \/ PriorityOf(available[i]) < PriorityOf(available[j])
                       \/ /\ PriorityOf(available[i]) = PriorityOf(available[j])
                          /\ IndexOf(available[i]) < IndexOf(available[j])

\* C12 witness: a selection left out a disabled backend and returned a backend
\* without priority after one declared later.
C12_Witness ==
    /\ last_op.op = "get_available_services"
    /\ \E n \in Configured : ~Enabled(n)
    /\ Len(available) = 2
    /\ IndexOf(available[1]) > IndexOf(available[2])
    /\ PriorityOf(available[2]) = 999

Occurrences(seq, x) == Cardinality({i \in 1..Len(seq) : seq[i] = x})

\* C14: within one request each backend is forwarded the request at most once,
\* is health-checked at most once and has at most one outcome recorded, also
\* when its breaker opens because of this request's own failure.
C14_NoRetryOfSameBackend ==
    Routed =>
        \A n \in Names :
            /\ Occurrences(sends, Send(n, "forward")) <= 1
            /\ Occurrences(sends, Send(n, "health")) <= 1
            /\ Occurrences(recorded, Recorded(n, "failure"))
               + Occurrences(recorded, Recorded(n, "success")) <= 1

\* C14 witness: a backend's breaker opened because of this request's failure
\* and the request went on to another candidate.
C14_Witness ==
    /\ Routed
    /\ Len(recorded) >= 2
    /\ recorded[1].result = "failure"
    /\ BreakerOpen(recorded[1].svc)
    /\ Occurrences(sends, Send(recorded[1].svc, "forward")) = 1

\* C15: record_success on a backend that is closed with no failure counted
\* (with or without a breaker entry) leaves it closed with consecutive_failures
\* 0, its status unchanged and the backend available, and a second
\* record_success changes nothing more.
C15_SuccessOnClosedIsNoOp ==
    [][\A n \in Configured :
          (/\ last_op'.op = "record_success"
           /\ last_op'.svc = n
           /\ Phase(n) = "closed"
           /\ circuit_breakers[n].failures = 0)
          => /\ circuit_breakers'[n].failures = 0
             /\ circuit_breakers'[n].status = circuit_breakers[n].status
             /\ ~StoredOpen(circuit_breakers', n)
             /\ ~Skipped(circuit_breakers', n, now')
             /\ RecordSuccessOn(circuit_breakers', n) = circuit_breakers'
             /\ \A m \in Names \ {n} : circuit_breakers'[m] = circuit_breakers[m]]_vars

\* C15 witness: record_success was called on a backend whose breaker had been
\* closed, with a count of 0, by an earlier success.
C15_Witness ==
    /\ last_op.op = "record_success"
    /\ last_op.was = "closed"
    /\ impl = "lambda_function_fixed"
    /\ circuit_breakers[last_op.svc].present
    /\ circuit_breakers[last_op.svc].status = "closed"
    /\ circuit_breakers[last_op.svc].failures = 0

\* C16: the 503 "all attempts failed" carries a last_error that names the last
\* candidate attempted, with that candidate's own status or error.
C16_LastErrorOfLastAttempt ==
    (Routed /\ response.message = "all failed") =>
        /\ recorded # <<>>
        /\ response.last_error.kind \in {"status", "error"}
        /\ response.last_error.svc = recorded[Len(recorded)].svc
        /\ response.last_error.kind = "status" =>
              response.last_error.code
                  = forward_request(recorded[Len(recorded)].svc, request)
        /\ response.last_error.kind = "error" =>
              response.last_error.err
                  = request.outcome[recorded[Len(recorded)].svc].kind

\* C17: a candidate that was forwarded the request has a success recorded, and
\* its response returned, exactly when it answered with a status in [200, 400);
\* it has a failure recorded exactly when it answered with a status >= 400 or
\* the send failed.
C17_SuccessIsBelow400 ==
    Routed =>
        \A n \in Names :
            Forwarded(n) =>
                LET o == request.outcome[n]
                    success == o.kind = "status" /\ 200 <= o.code /\ o.code < 400
                IN /\ success <=> n \in Succeeded(recorded)
                   /\ success => (response.served_by = n
                                  /\ response.statusCode = o.code)
                   /\ ~success <=> n \in Failed(recorded)

\* C18: computing the candidate list leaves every breaker entry as it was; a
\* backend re-admitted after its recovery timeout keeps its
\* consecutive_failures and last_failure_time.
C18_SelectionKeepsBreakers ==
    last_op.op = "get_available_services" =>
        \A n \in Configured :
            /\ circuit_breakers[n].failures = last_op.pre[n].failures
            /\ circuit_breakers[n].last_failure = last_op.pre[n].last_failure

\* C19: no recorded failure is lost: a request that records a failure for a
\* backend, and no success, leaves the backend's consecutive_failures one above
\* what the requests before it left.
C19_NoLostFailure ==
    [][\A n \in Configured :
          (/\ last_op'.op \in {"lambda_handler", "forward_request"}
           /\ n \in Failed(recorded')
           /\ n \notin Succeeded(recorded'))
          => circuit_breakers'[n].failures = circuit_breakers[n].failures + 1]_vars

\* C20: with the round_robin strategy configured and at least two backends
\* available, two consecutive requests that find the same available set do not
\* try the same backend first.
C20_RoundRobinRotates ==
    [][(/\ load_balancing.strategy = "round_robin"
        /\ load_balancing.round_robin_enabled
        /\ Routed
        /\ last_op'.op \in {"lambda_handler", "forward_request"}
        /\ Len(available) >= 2
        /\ Range(available') = Range(available)
        /\ sends # <<>>
        /\ sends' # <<>>)
       => sends'[1].svc # sends[1].svc]_vars

\* C21: a request whose method is not GET, POST, PUT or DELETE records no
\* failure in any breaker and changes no backend's availability (no candidate
\* failing a health check).
C21_UnsupportedMethodNoPenalty ==
    (/\ Routed
     /\ request.method \notin SupportedMethods
     /\ \A n \in Range(available) : Healthy(n))
    => /\ Failed(recorded) = {}
       /\ \A n \in Configured :
             /\ circuit_breakers[n].failures = last_op.pre[n].failures
             /\ BreakerOpen(n) <=> Skipped(last_op.pre, n, now)

Attempts == Cardinality({i \in 1..Len(sends) : sends[i].kind = "forward"})
Handling == last_op.op \in {"receive", "attempt"}

\* C23: handling one request always ends with one response that carries a
\* status code, after at most as many attempts (forwards, health checks,
\* recorded outcomes) as the list computed at the start has candidates,
\* whatever the backends answer; the response stays until the next request.
C23_TerminatesWithOneResponse ==
    /\ [](Handling =>
            /\ Attempts <= Len(available)
            /\ Len(sends) - Attempts <= Len(available)
            /\ Len(recorded) <= Len(available)
            /\ ~InProgress => response.statusCode \in 200..599)
    /\ [][(Handling /\ ~InProgress) => last_op'.op = "receive"]_vars
    /\ (InProgress ~> (Handling /\ ~InProgress))

\* C23 witness: a request ended with a response after an attempt on each of
\* three candidates, one answering an HTTP error and one timing out.
C23_Witness ==
    /\ last_op.op = "attempt"
    /\ ~InProgress
    /\ Len(available) = 3
    /\ Attempts = 3
    /\ request.outcome[available[1]] = Status(500)
    /\ request.outcome[available[2]] = Raises("timeout")
    /\ response.statusCode \in 200..599

====
